---- MODULE Spec2Model ----
(***************************************************************************)
(* Paginated user-sync orchestration of the elba connectors:               *)
(*   - scheduleUserSync  (cron fan-out, one event per organisation)        *)
(*   - syncUsers         (per-page worker: get-token, list-users,          *)
(*                        sync-users-page | finalize)                      *)
(*   - unauthorizedMiddleware.transformOutput (401 reclassification)       *)
(* The Inngest runtime is modelled by what the function options ask of it: *)
(* concurrency {key: organisationId, limit: 1} and retries: 3.             *)
(***************************************************************************)
EXTENDS Integers, Sequences, FiniteSets, TLC

(* ------------------------------ bounds --------------------------------- *)
NumOrgs   == 2      \* organisations in the Organisation table at start
MaxPages  == 2      \* pages of remote data per organisation
MaxUsers  == 1      \* users on one remote page
MaxCron   == 2      \* firings of the cron trigger
MaxFaults == 4      \* failing calls (remote API / elba API) in one behaviour

\* The behaviours explored: many failures of one sync; two syncs of one
\* organisation, one of which may fail; several syncs of one organisation;
\* two organisations side by side, one of which may fail; all organisations
\* side by side.
Profiles ==
  { [orgs |-> 1,       crons |-> 1,       faults |-> MaxFaults],
    [orgs |-> 1,       crons |-> 2,       faults |-> 1],
    [orgs |-> 1,       crons |-> MaxCron, faults |-> 0],
    [orgs |-> 2,       crons |-> 1,       faults |-> 1],
    [orgs |-> NumOrgs, crons |-> 1,       faults |-> 0] }

Orgs == 1..NumOrgs

(* --------------------------- program constants ------------------------- *)
ConcurrencyLimit == 1     \* concurrency: { key: organisationId, limit: 1 }
Retries          == 3     \* retries: 3

(* JavaScript null / undefined for fields whose other values are numbers   *)
Null      == -1
Undefined == -2

(* `if (nextPage)`: null, undefined and the number 0 are falsy             *)
Truthy(v) == v # Null /\ v # Undefined /\ v # 0

(* ------------------------------- errors -------------------------------- *)
NoCause == <<>>
NoError == [name |-> "none", status |-> 0, cause |-> NoCause]

\* new MondayError(message, { response }): the connector's error, response.status = st
MondayError(st) == [name |-> "MondayError", status |-> st, cause |-> NoCause]

\* an error of the elba API client (users.update / users.delete rejected)
ElbaError(st) == [name |-> "ElbaError", status |-> st, cause |-> NoCause]

CauseOf(e) == <<e.name, e.status>>

\* new NonRetriableError(message, { cause })
NonRetriableError(c) == [name |-> "NonRetriableError", status |-> 0, cause |-> c]

\* response statuses a failing remote fetch is drawn from
FaultStatuses == {401, 500}

(* ----------------------------- remote data ----------------------------- *)
\* The remote API: n pages, each empty or with MaxUsers users (sizes[i] users
\* on page i).  The first page is asked for with no cursor, page i >= 2 with
\* the cursor base + i - 2.
RemoteShapes ==
  UNION { { [n |-> n, base |-> b, sizes |-> s] : b \in {0, 1}, s \in [1..n -> {0, MaxUsers}] }
          : n \in 1..MaxPages }

VARIABLES
  store,        \* Organisation table: ids of the organisations that have a row
  events,       \* page_sync.requested events sent and not yet picked up
  run,          \* run[o][t]: the syncUsers run working on the sync (o, syncStartedAt = t)
  now,          \* Date.now()
  cronsLeft,    \* cron firings still to come
  report,       \* return value of the last scheduleUserSync run
  remote,       \* shape of the remote data
  faultsLeft,   \* failing calls still to come
  log,          \* log[o][t]: calls, events and outcomes of the sync (o, syncStartedAt = t)
  statusCalls,  \* statusCalls[o]: hasError arguments of elba.connectionStatus.update
  output,       \* output[o]: [in, out] of the last transformOutput for organisation o
  call,         \* a call of the middleware's transformOutput on a whole context
  route         \* a request to the GitHub setup route and what GET has done for it

vars == <<store, events, run, now, cronsLeft, report, remote, faultsLeft, log, statusCalls, output,
         call, route>>

Syncs == 1..MaxCron

(* ------------------------------ connector ------------------------------ *)
PageIndex(page) == IF page \in {Null, Undefined} THEN 1 ELSE page - remote.base + 2

Token(o) == o

MondayUser(token, i, j) ==
  LET id == 100 * token + 10 * i + j
  IN  [id |-> id, name |-> <<"name", id>>, email |-> <<"email", id>>]

\* getUsers(token, page): { data: { users }, nextPage }
getUsers(token, page) ==
  LET i == PageIndex(page)
  IN  [users    |-> [j \in 1..remote.sizes[i] |-> MondayUser(token, i, j)],
       nextPage |-> IF i < remote.n THEN remote.base + i - 1 ELSE Null]

\* a normalisation that stamps each record with the instant of the call
formatElbaUser_Stamped(user) ==
  [id |-> user.id, displayName |-> user.name, email |-> user.email,
   additionalEmails |-> <<>>, syncedAt |-> now]

formatElbaUser(user) ==
  [id |-> user.id, displayName |-> user.name, email |-> user.email,
   additionalEmails |-> <<>>]

\* result.data.users.map(formatElbaUser)
formatElbaUsers(users) == [k \in 1..Len(users) |-> formatElbaUser(users[k])]

\* new Date().toISOString(): the string that denotes the current instant
toISOString_Now(ms) == [iso |-> now]

\* new Date(ms).toISOString(): the string that denotes the instant ms
toISOString(ms) == [iso |-> ms]

(* ------------------------------- records ------------------------------- *)
\* a scheduler that marks its events as first syncs
ScheduledEvent_FirstSync(o, syncStartedAt) ==
  [organisationId |-> o, isFirstSync |-> TRUE, syncStartedAt |-> syncStartedAt,
   region |-> Undefined, page |-> Undefined]

\* data of the event sent for one organisation by scheduleUserSync
ScheduledEvent(o, syncStartedAt) ==
  [organisationId |-> o, isFirstSync |-> FALSE, syncStartedAt |-> syncStartedAt,
   region |-> Undefined, page |-> Undefined]

NoResult == [status |-> "none", error |-> NoError]

Idle == [pc |-> "idle", event |-> ScheduledEvent(0, 0), token |-> 0,
         nextPage |-> Null, attempt |-> 0, retryAt |-> "idle", result |-> NoResult]

NoOutput == [in |-> NoResult, out |-> NoResult]

\* one line of a sync's log; at: the instant at which elba receives an upsert
Entry(op, page) ==
  [op |-> op, page |-> page, users |-> <<>>,
   syncedBefore |-> toISOString(Null), error |-> NoError, attempts |-> 0,
   at |-> 0]

\* a context as the runtime gives it to transformOutput: fields of the
\* runtime (foo, baz) and the result, data (status) and error
NoContext ==
  [foo |-> "", baz |-> [biz |-> FALSE], result |-> NoResult]

NoCall == [pc |-> "none", organisationId |-> 0, ctx |-> NoContext, out |-> NoContext]

\* a cookie or a search parameter that the request does not have
Absent == [present |-> FALSE, value |-> ""]

NoRequest ==
  [pc |-> "none", installation_id |-> Absent, organisation_id |-> Absent,
   region |-> Absent, service |-> NoError, error |-> NoError,
   setupCalls |-> << >>, redirects |-> << >>]

Init ==
  /\ \E p \in Profiles :
       /\ store = 1..p.orgs
       /\ cronsLeft = p.crons
       /\ faultsLeft = p.faults
  /\ events = {}
  /\ run = [o \in Orgs |-> [t \in Syncs |-> Idle]]
  /\ now = 0
  /\ report = {}
  /\ remote \in RemoteShapes
  /\ log = [o \in Orgs |-> [t \in Syncs |-> <<>>]]
  /\ statusCalls = [o \in Orgs |-> <<>>]
  /\ output = [o \in Orgs |-> NoOutput]
  /\ call = NoCall
  /\ route = NoRequest

(* ------------------------------ scheduler ------------------------------ *)
\* a scheduler that sends an event for every row of the table
RunUserSyncJobs_AllRows(organisations, syncStartedAt) ==
  IF Cardinality(store) > 0
  THEN { ScheduledEvent(o, syncStartedAt) : o \in store }
  ELSE {}

\* if (organisations.length > 0) step.sendEvent('run-user-sync-jobs',
\*   organisations.map(({ organisationId }) => ({ name, data: { ... } })))
RunUserSyncJobs(organisations, syncStartedAt) ==
  IF Cardinality(organisations) > 0
  THEN { ScheduledEvent(o, syncStartedAt) : o \in organisations }
  ELSE {}

\* scheduleUserSync: the cron fires at a new instant; organisations is what
\* getOrganisationsToSync() returns, some of the rows of the table.
scheduleUserSync(organisations) ==
  /\ cronsLeft > 0
  /\ organisations \subseteq store
  /\ cronsLeft' = cronsLeft - 1
  /\ now' = now + 1
  /\ LET syncStartedAt == now'
     IN  events' = events \cup RunUserSyncJobs(organisations, syncStartedAt)
  /\ report' = organisations
  /\ UNCHANGED <<call, route, store, run, remote, faultsLeft, log, statusCalls, output>>

(* -------------------------------- worker ------------------------------- *)
Active(o) == { t \in Syncs : run[o][t].pc # "idle" }

\* a runtime whose limit counts the runs of all organisations (no key)
CanStart_NoKey(o) ==
  Cardinality({ <<o2, t>> \in Orgs \X Syncs : run[o2][t].pc # "idle" }) < ConcurrencyLimit

\* a runtime that lets one run too many through
CanStart_OneTooMany(o) == Cardinality(Active(o)) <= ConcurrencyLimit

\* concurrency: { key: 'event.data.organisationId', limit: 1 }
CanStart(o) == Cardinality(Active(o)) < ConcurrencyLimit

SetRun(o, t, r) == run' = [run EXCEPT ![o][t] = r]
Logged(o, t, es) == log' = [log EXCEPT ![o][t] = log[o][t] \o es]

\* the runtime picks up a pending event and starts a run of syncUsers
Start(e) ==
  LET o == e.organisationId
      t == e.syncStartedAt
  IN  /\ e \in events
      /\ CanStart(o)
      /\ events' = events \ {e}
      /\ SetRun(o, t, [Idle EXCEPT !.pc = "get-token", !.event = e, !.retryAt = "get-token"])
      /\ Logged(o, t, << Entry("start", e.page) >>)
      /\ UNCHANGED <<call, route, store, now, cronsLeft, report, remote, faultsLeft, statusCalls, output>>

\* throw new Error(...): an error the runtime retries
OrganisationNotFound_Retriable == [name |-> "Error", status |-> 0, cause |-> NoCause]

\* throw new NonRetriableError(`Could not retrieve organisation with id=...`)
OrganisationNotFound == NonRetriableError(NoCause)

\* step.run('get-token')
GetToken(o, t) ==
  LET r == run[o][t]
  IN  /\ r.pc = "get-token"
      /\ IF o \in store
         THEN /\ SetRun(o, t, [r EXCEPT !.pc = "list-users", !.token = Token(o),
                                        !.retryAt = "list-users", !.attempt = 0])
              /\ UNCHANGED log
         ELSE /\ SetRun(o, t, [r EXCEPT !.pc = "output",
                                        !.result = [status |-> "none",
                                                    error |-> OrganisationNotFound]])
              /\ Logged(o, t, << [Entry("error", r.event.page)
                                    EXCEPT !.error = OrganisationNotFound] >>)
      /\ UNCHANGED <<call, route, store, events, now, cronsLeft, report, remote, faultsLeft, statusCalls, output>>

\* a handler that catches the error of a call and returns as if it were done
Throw_Swallowed(o, t, r, err, es) ==
  /\ faultsLeft > 0
  /\ faultsLeft' = faultsLeft - 1
  /\ SetRun(o, t, [r EXCEPT !.pc = "output",
                            !.result = [status |-> "completed", error |-> NoError]])
  /\ Logged(o, t, es \o << [Entry("error", r.event.page) EXCEPT !.error = err] >>)

\* a call throws: the error leaves the handler, nothing after the call runs
Throw(o, t, r, err, es) ==
  /\ faultsLeft > 0
  /\ faultsLeft' = faultsLeft - 1
  /\ SetRun(o, t, [r EXCEPT !.pc = "output", !.result = [status |-> "none", error |-> err]])
  /\ Logged(o, t, es \o << [Entry("error", r.event.page) EXCEPT !.error = err] >>)

\* a list-users step that returns without sending the page to elba
ListUsersCalls_NoUpdate(fetch, update) == << fetch >>

\* a list-users step that sends every page to elba, the empty ones too
ListUsersCalls_Always(fetch, update) == << fetch, update >>

\* the calls of one list-users step: the page is fetched, and sent to elba
\* (awaited) when it has users
ListUsersCalls(fetch, update) ==
  IF Len(update.users) > 0 THEN << fetch, update >> ELSE << fetch >>

\* step.run('list-users')
ListUsers(o, t) ==
  LET r      == run[o][t]
      page   == r.event.page
      result == getUsers(r.token, page)
      users  == formatElbaUsers(result.users)
      fetch  == Entry("fetch", page)
      update == [Entry("upsert", page) EXCEPT !.users = users, !.at = now]
  IN  /\ r.pc = "list-users"
      /\ \/ \E st \in FaultStatuses : Throw(o, t, r, MondayError(st), << fetch >>)
         \/ /\ Len(result.users) > 0
            /\ Throw(o, t, r, ElbaError(500), << fetch, update >>)
         \/ /\ SetRun(o, t, [r EXCEPT !.pc = "decide", !.nextPage = result.nextPage,
                                      !.retryAt = "decide", !.attempt = 0])
            /\ Logged(o, t, ListUsersCalls(fetch, update))
            /\ UNCHANGED faultsLeft
      /\ UNCHANGED <<call, route, store, events, now, cronsLeft, report, remote, statusCalls, output>>

\* a continuation that stamps the event anew: syncStartedAt: Date.now()
ContinuationEvent_Restamped(event, nextPage) ==
  [event EXCEPT !.page = nextPage, !.syncStartedAt = now]

\* data: { ...event.data, page: nextPage }
ContinuationEvent(event, nextPage) == [event EXCEPT !.page = nextPage]

\* if (nextPage) { step.sendEvent('sync-users-page', ...); return { status: 'ongoing' } }
SendEvent(o, t) ==
  LET r == run[o][t]
      e == ContinuationEvent(r.event, r.nextPage)
  IN  /\ r.pc = "decide"
      /\ Truthy(r.nextPage)
      /\ events' = events \cup {e}
      /\ SetRun(o, t, [r EXCEPT !.pc = "output",
                                !.result = [status |-> "ongoing", error |-> NoError]])
      /\ Logged(o, t, << Entry("event", e.page) >>)
      /\ UNCHANGED <<call, route, store, now, cronsLeft, report, remote, faultsLeft, statusCalls, output>>

\* step.run('finalize'); return { status: 'completed' }
Finalize(o, t) ==
  LET r      == run[o][t]
      delete == [Entry("delete", r.event.page)
                   EXCEPT !.syncedBefore = toISOString(r.event.syncStartedAt)]
  IN  /\ r.pc = "decide"
      /\ ~Truthy(r.nextPage)
      /\ \/ Throw(o, t, r, ElbaError(500), << delete >>)
         \/ /\ SetRun(o, t, [r EXCEPT !.pc = "output",
                                      !.result = [status |-> "completed", error |-> NoError]])
            /\ Logged(o, t, << delete >>)
            /\ UNCHANGED faultsLeft
      /\ UNCHANGED <<call, route, store, events, now, cronsLeft, report, remote, statusCalls, output>>

(* -------------------------- failure classifier ------------------------- *)
isUnauthorizedError(error) == error.name = "MondayError" /\ error.status = 401

\* a middleware that reclassifies and notifies but keeps the organisation
transformOutput_KeepsOrganisation(result) ==
  IF isUnauthorizedError(result.error)
  THEN [result |-> [result EXCEPT !.error = NonRetriableError(CauseOf(result.error))],
        update |-> << TRUE >>, remove |-> FALSE]
  ELSE [result |-> result, update |-> << >>, remove |-> FALSE]

\* a middleware that takes every error for an authorization rejection
transformOutput_AnyError(result) ==
  IF result.error # NoError
  THEN [result |-> [result EXCEPT !.error = NonRetriableError(CauseOf(result.error))],
        update |-> << TRUE >>, remove |-> TRUE]
  ELSE [result |-> result, update |-> << >>, remove |-> FALSE]

\* unauthorizedMiddleware ... transformOutput({ result }) for the organisation
\* of the event: what it returns and which side effects it performs
transformOutput(result) ==
  IF isUnauthorizedError(result.error)
  THEN [result |-> [result EXCEPT !.error = NonRetriableError(CauseOf(result.error))],
        update |-> << TRUE >>, remove |-> TRUE]
  ELSE [result |-> result, update |-> << >>, remove |-> FALSE]

\* a runtime that counts the first attempt as a retry
ShouldRetry_CountsAttempts(error, attempt) ==
  /\ error # NoError
  /\ error.name # "NonRetriableError"
  /\ attempt + 1 < Retries

\* retries: 3 -- a failed step is run again unless the error is a
\* NonRetriableError or the step has already been retried Retries times
ShouldRetry(error, attempt) ==
  /\ error # NoError
  /\ error.name # "NonRetriableError"
  /\ attempt < Retries

\* the run's output goes through the middleware; the runtime then ends the
\* run or retries the failed step with the same event
TransformOutput(o, t) ==
  LET r   == run[o][t]
      tr  == transformOutput(r.result)
      out == tr.result
  IN  /\ r.pc = "output"
      /\ statusCalls' = [statusCalls EXCEPT ![o] = statusCalls[o] \o tr.update]
      /\ store' = IF tr.remove THEN store \ {r.event.organisationId} ELSE store
      /\ output' = [output EXCEPT ![o] = [in |-> r.result, out |-> out]]
      /\ IF ShouldRetry(out.error, r.attempt)
         THEN /\ SetRun(o, t, [r EXCEPT !.pc = r.retryAt, !.attempt = r.attempt + 1,
                                        !.result = NoResult])
              /\ UNCHANGED log
         ELSE /\ SetRun(o, t, Idle)
              /\ Logged(o, t, << [Entry(IF out.error = NoError THEN out.status ELSE "failed",
                                        r.event.page)
                                    EXCEPT !.error = out.error, !.attempts = r.attempt + 1] >>)
      /\ UNCHANGED <<call, route, events, now, cronsLeft, report, remote, faultsLeft>>

Next ==
  \/ \E organisations \in SUBSET Orgs : scheduleUserSync(organisations)
  \/ \E e \in events : Start(e)
  \/ \E o \in Orgs, t \in Syncs : GetToken(o, t)
  \/ \E o \in Orgs, t \in Syncs : ListUsers(o, t)
  \/ \E o \in Orgs, t \in Syncs : SendEvent(o, t)
  \/ \E o \in Orgs, t \in Syncs : Finalize(o, t)
  \/ \E o \in Orgs, t \in Syncs : TransformOutput(o, t)

Spec == Init /\ [][Next]_vars

(* ======================================================================= *)
(*                         properties of the syncs                         *)
(* ======================================================================= *)
Indices(o, t, op) == { k \in 1..Len(log[o][t]) : log[o][t][k].op = op }
Count(o, t, op)   == Cardinality(Indices(o, t, op))

\* the sync (o, t) has returned { status: 'completed' }
Completed(o, t) == Indices(o, t, "completed") # {}
\* no call of the sync (o, t) has thrown
NoFailure(o, t) == Indices(o, t, "error") = {}

UpsertsOfPage(o, t, i) ==
  { k \in Indices(o, t, "upsert") : PageIndex(log[o][t][k].page) = i }

\* C1: a sync whose steps did not fail and that has completed made exactly
\* one upsert call for every non-empty page of the remote data and none for
\* an empty page, then exactly one delete call, with syncedBefore equal to
\* its syncStartedAt, and no upsert after the delete.
C1_UpsertPerPageThenDelete ==
  \A o \in Orgs, t \in Syncs :
    (Completed(o, t) /\ NoFailure(o, t)) =>
      /\ \A i \in 1..remote.n :
           Cardinality(UpsertsOfPage(o, t, i)) = IF remote.sizes[i] > 0 THEN 1 ELSE 0
      /\ Count(o, t, "delete") = 1
      /\ \A k \in Indices(o, t, "delete") :
           /\ log[o][t][k].syncedBefore.iso = t
           /\ \A j \in Indices(o, t, "upsert") : j < k

\* the run of organisation o, sync t, sends its continuation event in this step
Sends(o, t) == run[o][t].pc = "decide" /\ run'[o][t].pc = "output" /\ events' # events

\* C2: every event that a run sends carries the organisationId, region,
\* isFirstSync and syncStartedAt of the event the run handles (hence, along
\* the chain, of the first event of the sync); only page changes, and it is
\* the nextPage that the fetch of the handled page returned.
C2_ContinuationCarriesState ==
  [][ cronsLeft' = cronsLeft =>
        \A e \in events' \ events :
          \E o \in Orgs, t \in Syncs :
            /\ Sends(o, t)
            /\ e.organisationId = run[o][t].event.organisationId
            /\ e.region = run[o][t].event.region
            /\ e.isFirstSync = run[o][t].event.isFirstSync
            /\ e.syncStartedAt = run[o][t].event.syncStartedAt
            /\ e.organisationId = o /\ e.syncStartedAt = t
            /\ e.region = ScheduledEvent(o, t).region
            /\ e.isFirstSync = ScheduledEvent(o, t).isFirstSync
            /\ e.page = getUsers(run[o][t].token, run[o][t].event.page).nextPage ]_vars

\* a continuation event is pending, sent at a later instant than its sync started
C2_Witness ==
  \E e \in events : e.page >= 0 /\ e.syncStartedAt < now

\* C3: at most one run of syncUsers is active for an organisation id, also
\* while further events of that organisation are pending.
C3_OneActiveRunPerOrganisation ==
  \A o \in Orgs : Cardinality(Active(o)) <= 1

\* a run is active for an organisation and another event of it is pending
C3_Witness ==
  \E o \in Orgs :
    /\ Active(o) # {}
    /\ \E e \in events : e.organisationId = o

(* ======================================================================= *)
(*                    properties of the failure classifier                 *)
(* ======================================================================= *)
\* the output of the run of organisation o, sync t, is handled in this step
Handled(o, t) == run[o][t].pc = "output" /\ run'[o][t] # run[o][t]

Last(s) == s[Len(s)]

\* C4: when a run ends with an error of status 401, connectionStatus.update
\* is called once with hasError = true, the organisation of the event is
\* removed, the error becomes a NonRetriableError whose cause is the 401
\* error, and the run ends there (it is not run, hence not classified, again).
C4_UnauthorizedIsTerminal ==
  [][ \A o \in Orgs, t \in Syncs :
        (Handled(o, t) /\ run[o][t].result.error.status = 401) =>
          LET err == run[o][t].result.error
          IN  /\ statusCalls'[o] = Append(statusCalls[o], TRUE)
              /\ store' = store \ {run[o][t].event.organisationId}
              /\ o \notin store'
              /\ output'[o].in.error = err
              /\ output'[o].out.error.name = "NonRetriableError"
              /\ output'[o].out.error.cause = << err.name, err.status >>
              /\ run'[o][t].pc = "idle"
              /\ Last(log'[o][t]).op = "failed"
              /\ Last(log'[o][t]).error = output'[o].out.error ]_vars

\* an organisation has been removed and notified once after a 401
C4_Witness ==
  \E o \in Orgs :
    /\ o \notin store
    /\ statusCalls[o] = << TRUE >>
    /\ output[o].in.error.status = 401
    /\ output[o].out.error.name = "NonRetriableError"

\* C5: an output without error, or with an error that is not a 401, comes
\* out as it went in: no connectionStatus.update, the organisation stays, and
\* the error is retried or surfaced as it would be without the middleware.
C5_OtherOutputsPassThrough ==
  [][ \A o \in Orgs, t \in Syncs :
        (Handled(o, t) /\ run[o][t].result.error.status # 401) =>
          LET r == run[o][t]
          IN  /\ output'[o] = [in |-> r.result, out |-> r.result]
              /\ statusCalls' = statusCalls
              /\ store' = store
              /\ (r.result.error.name \in {"MondayError", "ElbaError"} /\ r.attempt < Retries)
                   => run'[o][t].pc = r.retryAt
              /\ run'[o][t].pc = "idle" => Last(log'[o][t]).error = r.result.error ]_vars

\* a 500 error went through the middleware: unchanged, the organisation kept
C5_Witness ==
  \E o \in Orgs :
    /\ output[o].in.error.status = 500
    /\ output[o].out = output[o].in
    /\ o \in store
    /\ statusCalls[o] = << >>

\* C6: a run for an organisation that has no row fails at get-token with a
\* NonRetriableError; it sends no event and makes no call (fetch, upsert,
\* delete), and it ends after this one attempt.
C6_MissingOrganisationIsTerminal ==
  [][ \A o \in Orgs, t \in Syncs :
        (o \notin store /\ run[o][t].pc # "idle" /\ run'[o][t] # run[o][t]) =>
          /\ events' = events
          /\ Len(log'[o][t]) = Len(log[o][t]) + 1
          /\ \/ /\ run[o][t].pc = "get-token"
                /\ run'[o][t].pc = "output"
                /\ run'[o][t].result.error.name = "NonRetriableError"
                /\ Last(log'[o][t]).op = "error"
             \/ /\ run[o][t].pc = "output"
                /\ run'[o][t].pc = "idle"
                /\ Last(log'[o][t]).op = "failed"
                /\ Last(log'[o][t]).attempts = 1 ]_vars

\* a run started for a removed organisation has failed right after its start
C6_Witness ==
  \E o \in Orgs, t \in Syncs :
    LET L == log[o][t]
    IN  /\ o \notin store
        /\ Len(L) >= 3
        /\ L[Len(L)].op = "failed" /\ L[Len(L)].error = OrganisationNotFound
        /\ L[Len(L) - 1].op = "error"
        /\ L[Len(L) - 2].op = "start"

(* ======================================================================= *)
(*                        properties of the scheduler                      *)
(* ======================================================================= *)
\* C7 as stated: one scheduler run sends exactly one event per organisation
\* of its list and no other, each with page = null, isFirstSync = false and
\* the syncStartedAt read in this run.
C7_SignalsCarryNullPage ==
  [][ cronsLeft' # cronsLeft =>
        LET new == events' \ events
        IN  /\ { e.organisationId : e \in new } = report'
            /\ Cardinality(new) = Cardinality(report')
            /\ \A e \in new : /\ e.page = Null
                              /\ e.isFirstSync = FALSE
                              /\ e.syncStartedAt = now' ]_vars

\* C7 amended: as above, but the events carry no page: the field is absent
\* (undefined), not null.
C7_SignalsCarryNoPage ==
  [][ cronsLeft' # cronsLeft =>
        LET new == events' \ events
        IN  /\ { e.organisationId : e \in new } = report'
            /\ Cardinality(new) = Cardinality(report')
            /\ \A e \in new : /\ e.page = Undefined
                              /\ e.isFirstSync = FALSE
                              /\ e.syncStartedAt = now' ]_vars

\* one run has sent events for two organisations
C7_Witness ==
  /\ Cardinality(events) >= 2
  /\ { e.organisationId : e \in events } = report
  /\ \A e \in events : e.page = Undefined /\ e.syncStartedAt = now

\* C8: a scheduler run whose list of organisations is empty sends no event
\* (and a run that reports organisations sends some).
C8_EmptyListSendsNothing ==
  [][ cronsLeft' # cronsLeft => ((report' = {}) <=> (events' = events)) ]_vars

\* the scheduler has run with an empty list: nothing pending, nothing started
C8_Witness ==
  /\ now > 0
  /\ store # {}
  /\ report = {}
  /\ events = {}
  /\ \A o \in Orgs, t \in Syncs : log[o][t] = << >>

(* ======================================================================= *)
(*                      ordering and retries of the worker                 *)
(* ======================================================================= *)
\* the upsert at position u of the log was not rejected
Accepted(L, u) == u = Len(L) \/ L[u + 1].op # "error"

\* C9: the event for the next page is sent only after the handled page was
\* fetched and (when it has users) upserted; the next page is fetched only
\* after that event; the pages of a sync are fetched in order, and never two
\* of one organisation at the same time.
C9_PagesInSequence ==
  \A o \in Orgs :
    /\ Cardinality({ t \in Syncs : run[o][t].pc = "list-users" }) <= 1
    /\ \A t \in Syncs :
         LET L == log[o][t]
         IN  /\ \A k \in Indices(o, t, "event") :
                  /\ \E j \in Indices(o, t, "fetch") :
                       LET page == getUsers(Token(o), L[j].page)
                       IN  /\ j < k
                           /\ page.nextPage = L[k].page
                           /\ Len(page.users) > 0 =>
                                \E u \in Indices(o, t, "upsert") :
                                  j < u /\ u < k /\ L[u].page = L[j].page /\ Accepted(L, u)
                  /\ \A f \in Indices(o, t, "fetch") : L[f].page = L[k].page => k < f
             /\ \A f1, f2 \in Indices(o, t, "fetch") :
                  f1 < f2 => PageIndex(L[f1].page) <= PageIndex(L[f2].page)

\* a page was upserted, the event for the next page sent, the next page fetched
C9_Witness ==
  \E o \in Orgs, t \in Syncs :
    LET L == log[o][t]
    IN  \E u \in Indices(o, t, "upsert"), k \in Indices(o, t, "event"),
           f \in Indices(o, t, "fetch") :
          u < k /\ k < f /\ L[f].page = L[k].page

\* position of the start of the current run in the log of the sync (o, t)
LastStart(o, t) ==
  CHOOSE s \in Indices(o, t, "start") : \A s2 \in Indices(o, t, "start") : s2 <= s

\* in the current run of (o, t) only fetches were made and all were rejected
\* with a status other than 401
OnlyFetchFailures(o, t) ==
  LET L == log[o][t]
  IN  \A k \in (LastStart(o, t) + 1)..Len(L) :
        \/ L[k].op = "fetch"
        \/ L[k].op = "error" /\ L[k].error.name = "MondayError" /\ L[k].error.status # 401

FetchesOfRun(o, t) == { k \in Indices(o, t, "fetch") : k > LastStart(o, t) }

\* the run of (o, t) ends in this step with a permanent failure after nothing
\* but rejected fetches
FetchKeptFailing(o, t) ==
  /\ run[o][t].pc = "output"
  /\ run'[o][t].pc = "idle"
  /\ run[o][t].result.error.name = "MondayError"
  /\ OnlyFetchFailures(o, t)

\* C10 as stated: when every fetch of a run fails with a non-401 error, the
\* run fails for good after 3 attempts, all with the same event; the
\* organisation is still there and connectionStatus.update was never called.
C10_FailsAfterThreeAttempts ==
  [][ \A o \in Orgs, t \in Syncs :
        FetchKeptFailing(o, t) =>
          /\ Last(log'[o][t]).op = "failed"
          /\ Last(log'[o][t]).attempts = 3
          /\ Cardinality(FetchesOfRun(o, t)) = 3
          /\ \A k \in FetchesOfRun(o, t) : log[o][t][k].page = run[o][t].event.page
          /\ o \in store'
          /\ statusCalls'[o] = << >> ]_vars

\* C10 amended: the run fails for good after the first attempt and 3 retries,
\* that is after 4 attempts.
C10_FailsAfterRetriesPlusOne ==
  [][ \A o \in Orgs, t \in Syncs :
        FetchKeptFailing(o, t) =>
          /\ Last(log'[o][t]).op = "failed"
          /\ Last(log'[o][t]).attempts = Retries + 1
          /\ Cardinality(FetchesOfRun(o, t)) = Retries + 1
          /\ \A k \in FetchesOfRun(o, t) : log[o][t][k].page = run[o][t].event.page
          /\ o \in store'
          /\ statusCalls'[o] = << >> ]_vars

\* a run has failed for good on a 500 of the remote API
C10_Witness ==
  \E o \in Orgs, t \in Syncs :
    LET L == log[o][t]
    IN  /\ Len(L) > 0
        /\ L[Len(L)].op = "failed"
        /\ L[Len(L)].error = MondayError(500)
        /\ Cardinality(Indices(o, t, "error")) > Retries
        /\ o \in store

(* ======================================================================= *)
(*                     decisions of one run of the worker                  *)
(* ======================================================================= *)
\* the log lines that this step adds to the sync (o, t)
NewLines(o, t) == SubSeq(log'[o][t], Len(log[o][t]) + 1, Len(log'[o][t]))

NewOps(o, t) == { NewLines(o, t)[k].op : k \in 1..Len(NewLines(o, t)) }

\* the run of (o, t) returns without error in this step
Returns(o, t) ==
  /\ run[o][t].pc = "decide"
  /\ run'[o][t].pc = "output"
  /\ run'[o][t].result.error = NoError

\* C11: a run that returns without error either had a next-page cursor (any
\* value but null): it sends exactly one event, with page equal to that cursor,
\* calls no delete and returns 'ongoing'; or had none: it sends no event, calls
\* delete(syncedBefore = syncStartedAt) once and returns 'completed'.
C11_ContinueOrFinalize ==
  [][ \A o \in Orgs, t \in Syncs :
        Returns(o, t) =>
          LET r == run[o][t]
          IN  IF r.nextPage # Null
              THEN /\ events' \ events = { [r.event EXCEPT !.page = r.nextPage] }
                   /\ "delete" \notin NewOps(o, t)
                   /\ run'[o][t].result.status = "ongoing"
              ELSE /\ events' = events
                   /\ Len(NewLines(o, t)) = 1
                   /\ NewLines(o, t)[1].op = "delete"
                   /\ NewLines(o, t)[1].syncedBefore.iso = r.event.syncStartedAt
                   /\ run'[o][t].result.status = "completed" ]_vars

(* ======================================================================= *)
(*                      a payload that is handled again                    *)
(* ======================================================================= *)
\* position of the start of the run that made the call at position k
StartOf(L, k) ==
  CHOOSE s \in 1..k : L[s].op = "start" /\ \A s2 \in (s + 1)..k : L[s2].op # "start"

\* the fetch at position f of the log returned a page
Fetched(L, f) == L[f].op = "fetch" /\ (f = Len(L) \/ L[f + 1].op # "error")

\* the batch sent to elba after the fetch at position f (none: the empty batch)
BatchAfter(L, f) ==
  IF f < Len(L) /\ L[f + 1].op = "upsert" THEN L[f + 1].users ELSE << >>

\* positions of the decisions of the runs: the event sent or the delete made
Decisions(L) ==
  { k \in 1..Len(L) : L[k].op = "event" \/ (L[k].op = "delete" /\ Accepted(L, k)) }

\* C12: handling the same page of the same organisation again (a step run
\* again with the same event, or the page of a later sync) gives the same
\* batch for elba and the same decision: the same next page to continue with,
\* or in both cases the finalize.
C12_SamePayloadSameOutcome ==
  \A o \in Orgs, t1 \in Syncs, t2 \in Syncs :
    LET L1 == log[o][t1]
        L2 == log[o][t2]
    IN  /\ \A f1 \in 1..Len(L1), f2 \in 1..Len(L2) :
             (Fetched(L1, f1) /\ Fetched(L2, f2) /\ L1[f1].page = L2[f2].page)
               => BatchAfter(L1, f1) = BatchAfter(L2, f2)
        /\ \A d1 \in Decisions(L1), d2 \in Decisions(L2) :
             L1[StartOf(L1, d1)].page = L2[StartOf(L2, d2)].page
               => /\ L1[d1].op = L2[d2].op
                  /\ L1[d1].op = "event" => L1[d1].page = L2[d2].page

\* a step was run again with the same event after elba rejected the batch, and
\* the page was sent a second time; the next sync has decided on that page too
C12_Witness ==
  \E o \in Orgs, t \in Syncs :
    LET L == log[o][t]
    IN  /\ \E u1, u2 \in Indices(o, t, "upsert") :
             u1 < u2 /\ L[u1].page = L[u2].page /\ ~Accepted(L, u1) /\ Accepted(L, u2)
        /\ \E t2 \in Syncs \ {t} : Decisions(log[o][t2]) # {}

(* ======================================================================= *)
(*                       the batch of one list-users step                  *)
(* ======================================================================= *)
\* the list-users step of the run of (o, t) executes in this step
ListsUsers(o, t) == run[o][t].pc = "list-users" /\ run'[o][t] # run[o][t]

\* ids of the remote records of the pages other than page i
IdsOfOtherPages(token, i) ==
  { MondayUser(token, i2, j).id : i2 \in (1..remote.n) \ {i}, j \in 1..MaxUsers }

\* upserts of the sync (o, t) that elba accepted, made by the run started at s
AcceptedUpserts(o, t, s) ==
  { u \in Indices(o, t, "upsert") :
      Accepted(log[o][t], u) /\ StartOf(log[o][t], u) = s }

Removed(o) == o \notin store /\ statusCalls[o] # << >>

\* C14: once the middleware has removed an organisation after a 401, no run
\* for it fetches, upserts or deletes any more: a run started from a pending
\* event fails at get-token, no further event is sent for it by a run, and
\* the scheduler sends none for it either; the organisation stays removed.
C14_RemovedOrganisationIsLeftAlone ==
  [][ \A o \in Orgs :
        Removed(o) =>
          /\ Removed(o)'
          /\ \A e \in events' \ events : e.organisationId # o
          /\ cronsLeft' # cronsLeft => o \notin report'
          /\ \A t \in Syncs :
               /\ NewOps(o, t) \subseteq {"start", "error", "failed"}
               /\ run'[o][t].pc \in {"idle", "get-token", "output"}
               /\ run'[o][t].pc = "output" =>
                    run'[o][t].result.error = OrganisationNotFound ]_vars

\* an organisation was removed after a 401 while an event of its next sync was
\* pending; the run started from that event has failed at get-token, and the
\* scheduler runs are over
C14_Witness ==
  \E o \in Orgs, t \in Syncs :
    LET L == log[o][t]
    IN  /\ Removed(o)
        /\ cronsLeft = 0
        /\ \A e \in events : e.organisationId # o
        /\ Len(L) = 3
        /\ L[1].op = "start" /\ L[2].op = "error" /\ L[3].op = "failed"
        /\ L[3].error = OrganisationNotFound
        /\ \E t1 \in Syncs \ {t} : log[o][t1] # << >> /\ Last(log[o][t1]).error.name = "NonRetriableError"

(* ======================================================================= *)
(*                        a step of the worker that fails                  *)
(* ======================================================================= *)
\* get-token, the fetch or the upsert of the run of (o, t) throws in this step
Fails(o, t) ==
  /\ run[o][t].pc \in {"get-token", "list-users"}
  /\ "error" \in NewOps(o, t)

\* C15: when get-token, the fetch or the upsert throws, that execution sends
\* no event, calls no delete and returns neither 'ongoing' nor 'completed':
\* the error is its output, and it is this error that the middleware receives.
C15_FailureStopsTheExecution ==
  [][ \A o \in Orgs, t \in Syncs :
        /\ Fails(o, t) =>
             /\ events' = events
             /\ "event" \notin NewOps(o, t)
             /\ "delete" \notin NewOps(o, t)
             /\ run'[o][t].pc = "output"
             /\ run'[o][t].result.status \notin {"ongoing", "completed"}
             /\ run'[o][t].result.error # NoError
             /\ run'[o][t].result.error = Last(NewLines(o, t)).error
        /\ (Handled(o, t) /\ run[o][t].result.error # NoError) =>
             /\ output'[o].in = run[o][t].result
             /\ events' = events
             /\ NewOps(o, t) \subseteq {"failed"} ]_vars

\* elba has rejected a batch: the error is the output of the execution, and
\* no event of the organisation is pending
C15_Witness ==
  \E o \in Orgs, t \in Syncs :
    LET L == log[o][t]
    IN  /\ run[o][t].pc = "output"
        /\ run[o][t].result = [status |-> "none", error |-> ElbaError(500)]
        /\ Len(L) >= 2 /\ L[Len(L) - 1].op = "upsert"
        /\ \A e \in events : e.organisationId # o

(* ======================================================================= *)
(*                          a sync runs to its end                         *)
(* ======================================================================= *)
\* the steps of the runtime, the worker and the middleware
Worker ==
  \/ \E e \in events : Start(e)
  \/ \E o \in Orgs, t \in Syncs : GetToken(o, t)
  \/ \E o \in Orgs, t \in Syncs : ListUsers(o, t)
  \/ \E o \in Orgs, t \in Syncs : SendEvent(o, t)
  \/ \E o \in Orgs, t \in Syncs : Finalize(o, t)
  \/ \E o \in Orgs, t \in Syncs : TransformOutput(o, t)

\* the runtime dispatches pending events and runs enabled steps
FairSpec == Spec /\ WF_vars(Worker)

\* the first event of the sync (o, t), without a page cursor, is pending
SyncRequested(o, t) ==
  \E e \in events :
    e.organisationId = o /\ e.syncStartedAt = t /\ e.page \in {Null, Undefined}

\* a run of the sync (o, t) has failed for good
GaveUp(o, t) == Indices(o, t, "failed") # {}

\* the sync (o, t) has returned 'completed' after its delete, and its chain
\* had one event per page of the remote data (the first one included)
CompletedOverAllPages(o, t) ==
  /\ Completed(o, t)
  /\ \A c \in Indices(o, t, "completed") :
       \E d \in Indices(o, t, "delete") : d < c /\ Accepted(log[o][t], d)
  /\ Count(o, t, "start") = remote.n
  /\ \A e \in events : ~(e.organisationId = o /\ e.syncStartedAt = t)

\* C16: a pending first event of a sync leads, when the runtime is fair and
\* no run of the sync fails for good, to 'completed' after the delete, with a
\* chain of one event per page of the remote data.
C16_SyncCompletesOverAllPages ==
  \A o \in Orgs, t \in Syncs :
    SyncRequested(o, t) ~> (GaveUp(o, t) \/ CompletedOverAllPages(o, t))

(* ======================================================================= *)
(*                 the middleware on a whole output context                *)
(* ======================================================================= *)
\* new Error('foo bar'): an error that is no authorization rejection
FooBarError == [name |-> "Error", status |-> 0, cause |-> NoCause]

\* the contexts given to transformOutput
Contexts ==
  { [foo |-> f, baz |-> [biz |-> b], result |-> [status |-> d, error |-> e]] :
      f \in {"bar", "qux"}, b \in BOOLEAN, d \in {"bizz", "none", "ongoing"},
      e \in {NoError, FooBarError, MondayError(401), MondayError(500), ElbaError(500)} }

\* a middleware that returns { ...context, result: { error } }
transformContext_DropsData(ctx) ==
  [ctx EXCEPT !.result = [status |-> "none", error |-> transformOutput(ctx.result).result.error]]

\* what the run's output is after transformOutput(context):
\* { ...context, result: { ...result, error: new NonRetriableError(...) } } on a
\* 401, the context as given otherwise
transformContext(ctx) == [ctx EXCEPT !.result = transformOutput(ctx.result).result]

\* every organisation has a row; no sync is requested, none will be
NoSync ==
  /\ store = Orgs
  /\ events = {}
  /\ run = [o \in Orgs |-> [t \in Syncs |-> Idle]]
  /\ now = 0
  /\ cronsLeft = 0
  /\ report = {}
  /\ remote \in { r \in RemoteShapes : r.n = 1 /\ r.base = 0 /\ r.sizes[1] = 0 }
  /\ faultsLeft = 0
  /\ log = [o \in Orgs |-> [t \in Syncs |-> <<>>]]
  /\ statusCalls = [o \in Orgs |-> <<>>]
  /\ output = [o \in Orgs |-> NoOutput]

MiddlewareInit ==
  /\ NoSync
  /\ route = NoRequest
  /\ \E o \in Orgs, ctx \in Contexts :
       call = [pc |-> "given", organisationId |-> o, ctx |-> ctx, out |-> NoContext]

\* unauthorizedMiddleware.init().onFunctionRun({ ctx: { event } })
\*   .transformOutput(context)
TransformContext ==
  LET o  == call.organisationId
      tr == transformOutput(call.ctx.result)
  IN  /\ call.pc = "given"
      /\ call' = [call EXCEPT !.pc = "returned", !.out = transformContext(call.ctx)]
      /\ statusCalls' = [statusCalls EXCEPT ![o] = statusCalls[o] \o tr.update]
      /\ store' = IF tr.remove THEN store \ {o} ELSE store
      /\ UNCHANGED <<events, run, now, cronsLeft, report, remote, faultsLeft, log, output,
                     route>>

MiddlewareNext == TransformContext

MiddlewareSpec == MiddlewareInit /\ [][MiddlewareNext]_vars

\* C17: when the middleware reclassifies a 401, the context it returns has
\* the fields of the one it was given, with the same values, except for the
\* error of the result: the other top-level fields and the result's data are
\* as given.
C17_ReclassificationKeepsTheRest ==
  (call.pc = "returned" /\ call.ctx.result.error.status = 401) =>
    /\ DOMAIN call.out = DOMAIN call.ctx
    /\ \A f \in DOMAIN call.ctx \ {"result"} : call.out[f] = call.ctx[f]
    /\ DOMAIN call.out.result = DOMAIN call.ctx.result
    /\ \A f \in DOMAIN call.ctx.result \ {"error"} : call.out.result[f] = call.ctx.result[f]
    /\ call.out.result.error.name = "NonRetriableError"

\* the context of the test went through: foo: 'bar', baz: { biz: true },
\* result: { data: 'bizz', error: a 401 }, and came back with another error
C17_Witness ==
  /\ call.pc = "returned"
  /\ call.ctx.foo = "bar" /\ call.ctx.baz.biz /\ call.ctx.result.status = "bizz"
  /\ call.ctx.result.error.status = 401
  /\ call.out.result.error # call.ctx.result.error
  /\ call.organisationId \notin store

(* ======================================================================= *)
(*                    organisations do not touch each other                *)
(* ======================================================================= *)
\* the pending events of organisation o
EventsOf(o) == { e \in events : e.organisationId = o }

\* a step of the worker or of the middleware for organisation o
StepFor(o) == run'[o] # run[o]

\* what a sync makes from page i on when none of its calls fails
RECURSIVE FaultFreeOps(_)
FaultFreeOps(i) ==
  LET result == getUsers(0, IF i = 1 THEN Undefined ELSE remote.base + i - 2)
      calls  == << "start", "fetch" >>
                  \o (IF Len(result.users) > 0 THEN << "upsert" >> ELSE << >>)
  IN  IF Truthy(result.nextPage)
      THEN calls \o << "event", "ongoing" >> \o FaultFreeOps(i + 1)
      ELSE calls \o << "delete", "completed" >>

\* the sync (o, t) has come to the outcome of a sync none of whose calls fails
SameOutcome(o, t) ==
  [k \in 1..Len(log[o][t]) |-> log[o][t][k].op] = FaultFreeOps(1)

\* C18: a step of the worker or of the middleware for an organisation, the
\* removal after a 401 included, leaves the row, the connection status, the
\* pending events, the runs and the calls made so far of every other
\* organisation as they were; and an event of an organisation that has no
\* active run can be started whatever the other organisations are doing, so
\* that a sync whose own calls do not fail comes to the same outcome whatever
\* happens to the other organisations.
C18_OrganisationsAreIndependent ==
  [][ /\ \A x \in Orgs :
           StepFor(x) =>
             \A y \in Orgs \ {x} :
               /\ (y \in store') <=> (y \in store)
               /\ statusCalls'[y] = statusCalls[y]
               /\ EventsOf(y)' = EventsOf(y)
               /\ run'[y] = run[y]
               /\ log'[y] = log[y]
               /\ output'[y] = output[y]
      /\ \A e \in events : Active(e.organisationId) = {} => ENABLED Start(e)
      /\ \A y \in Orgs, t \in Syncs :
           (Completed(y, t) /\ NoFailure(y, t))' => SameOutcome(y, t)' ]_vars

\* one organisation was removed after a 401 while the sync of another one,
\* started by the same scheduler run, has completed without a failure and
\* kept its row and its connection status
C18_Witness ==
  \E x \in Orgs, y \in Orgs :
    /\ x # y
    /\ Removed(x)
    /\ y \in store /\ statusCalls[y] = << >>
    /\ \E t \in Syncs : /\ Completed(y, t) /\ NoFailure(y, t)
                        /\ log[x][t] # << >> /\ Last(log[x][t]).op = "failed"

(* ======================================================================= *)
(*                        the watermark of a sync                          *)
(* ======================================================================= *)
\* elba.users.delete({ syncedBefore }) removes the users last sent before
\* syncedBefore: the delete at position d removes what the upsert at u sent
Tombstones(L, d, u) == L[u].at < L[d].syncedBefore.iso

\* C19: syncStartedAt is read before the events of a sync are sent: no event
\* and no run carries an instant of the future, every upsert of a sync is made
\* at an instant not earlier than its syncStartedAt, and a delete of the sync
\* never removes a user that an upsert of this sync has sent.
C19_WatermarkPrecedesUpserts ==
  /\ \A e \in events : e.syncStartedAt <= now
  /\ \A o \in Orgs, t \in Syncs :
       LET L == log[o][t]
       IN  /\ run[o][t].pc # "idle" => run[o][t].event.syncStartedAt = t /\ t <= now
           /\ \A u \in Indices(o, t, "upsert") :
                /\ L[u].at >= t
                /\ \A d \in Indices(o, t, "delete") :
                     /\ L[d].syncedBefore.iso = t
                     /\ ~Tombstones(L, d, u)

\* a sync has sent a page to elba, at an instant later than its syncStartedAt,
\* and has then made its delete
C19_Witness ==
  \E o \in Orgs, t \in Syncs :
    LET L == log[o][t]
    IN  \E u \in Indices(o, t, "upsert"), d \in Indices(o, t, "delete") :
          /\ u < d
          /\ Accepted(L, u) /\ Accepted(L, d)
          /\ L[u].at > t
          /\ L[u].users # << >>

(* ======================================================================= *)
(*                          the GitHub setup route                         *)
(* ======================================================================= *)
Present(v) == [present |-> TRUE, value |-> v]

\* values of the search parameter installation_id (searchParams.get gives
\* null when it is absent)
InstallationIds == { Absent } \cup { Present(v) : v \in {"", "abc", "1.5", "-1", "0", "12"} }

\* values of the cookies organisation_id and region (undefined when absent)
OrganisationIds == { Absent, Present("not-a-uuid"),
                     Present("b91f113b-bcf9-4a28-98c7-5b13fb671c19") }
Regions == { Absent, Present(""), Present("us") }

\* new RequestError(message, status, { response: { status } })
RequestError(st) == [name |-> "RequestError", status |-> st, cause |-> NoCause]

\* the error thrown by routeInputSchema.parse
ZodError == [name |-> "ZodError", status |-> 0, cause |-> NoCause]

\* what setupOrganisation does when it is called: it returns (NoError) or
\* throws a RequestError (with a response status, or with no response) or
\* another error, which may have a response of status 401 as well
ServiceOutcomes ==
  { NoError, RequestError(401), RequestError(500), RequestError(Undefined),
    FooBarError, MondayError(401) }

\* z.coerce.number(): Number(value), in tenths; Number(null) and Number('')
\* are 0, Number('abc') is NaN
Number(v) ==
  CASE ~v.present       -> [nan |-> FALSE, tenths |-> 0]
    [] v.value = ""     -> [nan |-> FALSE, tenths |-> 0]
    [] v.value = "1.5"  -> [nan |-> FALSE, tenths |-> 15]
    [] v.value = "-1"   -> [nan |-> FALSE, tenths |-> -10]
    [] v.value = "0"    -> [nan |-> FALSE, tenths |-> 0]
    [] v.value = "12"   -> [nan |-> FALSE, tenths |-> 120]
    [] OTHER            -> [nan |-> TRUE, tenths |-> 0]

\* z.string().uuid()
IsUuid(v) == v.present /\ v.value \in {"b91f113b-bcf9-4a28-98c7-5b13fb671c19"}

\* z.string().min(1)
IsNonEmptyString(v) == v.present /\ v.value # ""

\* z.coerce.number().int().positive()
IsPositiveInt(v) ==
  LET n == Number(v)
  IN  ~n.nan /\ n.tenths % 10 = 0 /\ n.tenths > 0

\* routeInputSchema.parse({ installationId, organisationId, region })
routeInputSchema(installationId, organisationId, region) ==
  IF IsUuid(organisationId) /\ IsNonEmptyString(region) /\ IsPositiveInt(installationId)
  THEN [success |-> TRUE,
        data |-> [organisationId |-> organisationId.value, region |-> region.value,
                  installationId |-> Number(installationId).tenths \div 10]]
  ELSE [success |-> FALSE,
        data |-> [organisationId |-> "", region |-> "", installationId |-> 0]]

RouteInit ==
  /\ NoSync
  /\ call = NoCall
  /\ \E i \in InstallationIds, o \in OrganisationIds, r \in Regions, s \in ServiceOutcomes :
       route = [NoRequest EXCEPT !.pc = "parse", !.installation_id = i,
                                 !.organisation_id = o, !.region = r, !.service = s]

RouteStep(r) ==
  /\ route' = r
  /\ UNCHANGED <<store, events, run, now, cronsLeft, report, remote, faultsLeft, log,
                 statusCalls, output, call>>

\* const input = routeInputSchema.parse({ ... }); await setupOrganisation(input)
Parse ==
  LET input == routeInputSchema(route.installation_id, route.organisation_id, route.region)
  IN  /\ route.pc = "parse"
      /\ IF ~input.success
         THEN RouteStep([route EXCEPT !.pc = "catch", !.error = ZodError])
         ELSE RouteStep([route EXCEPT !.setupCalls = Append(route.setupCalls, input.data),
                                      !.pc = IF route.service = NoError
                                             THEN "success" ELSE "catch",
                                      !.error = route.service])

\* a catch block in which redirect() returns: the second redirect follows
CatchRedirects_FallsThrough(error) ==
  (IF error.name = "RequestError" /\ error.status = 401
   THEN << "error=unauthorized" >> ELSE << >>) \o << "error=internal_error" >>

\* the redirects of the catch block: redirect() throws, so that the one for
\* a RequestError of response status 401 is not followed by the other
CatchRedirects(error) ==
  IF error.name = "RequestError" /\ error.status = 401
  THEN << "error=unauthorized" >>
  ELSE << "error=internal_error" >>

\* catch (error) { ... }
Catch ==
  /\ route.pc = "catch"
  /\ RouteStep([route EXCEPT !.pc = "done",
                             !.redirects = route.redirects \o CatchRedirects(route.error)])

\* redirect(`...&success=true`, RedirectType.replace)
Succeed ==
  /\ route.pc = "success"
  /\ RouteStep([route EXCEPT !.pc = "done",
                             !.redirects = Append(route.redirects, "success=true")])

RouteNext == Parse \/ Catch \/ Succeed

RouteSpec == RouteInit /\ [][RouteNext]_vars

\* the input of the request is valid: a uuid, a non-empty region and an
\* installation id that is a positive integer
ValidRequest ==
  /\ route.organisation_id = Present("b91f113b-bcf9-4a28-98c7-5b13fb671c19")
  /\ route.region = Present("us")
  /\ route.installation_id = Present("12")

\* C20: GET answers a request with exactly one redirect: success=true when
\* the input is valid and setupOrganisation returns, error=unauthorized when
\* setupOrganisation throws a RequestError of response status 401,
\* error=internal_error for every other failure, invalid input included; and
\* setupOrganisation is not called for an invalid input.
C20_ExactlyOneRedirect ==
  /\ Len(route.redirects) <= 1
  /\ ~ValidRequest => route.setupCalls = << >>
  /\ Len(route.setupCalls) <= 1
  /\ route.pc = "done" =>
       /\ Len(route.redirects) = 1
       /\ ValidRequest => Len(route.setupCalls) = 1
       /\ route.redirects[1] =
            IF ValidRequest /\ route.service = NoError THEN "success=true"
            ELSE IF ValidRequest /\ route.service = RequestError(401)
                 THEN "error=unauthorized"
                 ELSE "error=internal_error"

\* a valid request whose setupOrganisation threw a RequestError of status 401
\* was answered with error=unauthorized
C20_Witness ==
  /\ route.pc = "done"
  /\ ValidRequest
  /\ route.service = RequestError(401)
  /\ Len(route.setupCalls) = 1
  /\ route.redirects = << "error=unauthorized" >>
====
